---------------------------- MODULE Spec2Model ----------------------------
(***************************************************************************)
(* Model of the two utilities of the repository:                           *)
(*   src/code.py          find_next_post_id, add_blog_post                 *)
(*   src/git_push_gui.py  GitWorker.run, MainWindow push workflow          *)
(*                                                                         *)
(* Strings that the code inspects character by character (element ids,     *)
(* the tag field, the commit message) are sequences of one-character       *)
(* strings.  Markup text (the file, the backup, the synthesized fragment)  *)
(* is a sequence of tokens; the parser and the serializer are operators    *)
(* between token sequences and trees.                                      *)
(***************************************************************************)
EXTENDS Integers, Sequences, FiniteSets, TLC

VARIABLES
    file,           \* text of the document file, or NoFile
    bak,            \* text of <path>.bak, or NoFile
    pc,             \* position inside add_blog_post ("idle" between calls)
    req,            \* arguments of the call in progress
    content,        \* local: text read from the file
    soup,           \* local: the parsed document tree
    mainPath,       \* local: main_content, as the path of the node in soup
    nextId,         \* local: next_id
    result,         \* what the last call gave its caller
    calls,          \* number of calls started
    fileAtCall,     \* history: file when the call in progress started
    bakAtCall,      \* history: bak when the call in progress started
    copyDone,       \* history: shutil.copy2 returned in this call
    openedW,        \* history: the file was opened for writing in this call
    faulted,        \* history: a fault was raised in this call
    allocLog,       \* history: identifiers allocated by the successful calls
    button,         \* push_button.isEnabled()
    runs,           \* one record per GitWorker started
    events,         \* signals queued for the GUI thread, oldest first
    dialogs         \* the modal message boxes that are open, innermost last

blogVars == <<file, bak, pc, req, content, soup, mainPath, nextId, result,
              calls, fileAtCall, bakAtCall, copyDone, openedW, faulted, allocLog>>
gitVars == <<button, runs, events, dialogs>>
vars == <<blogVars, gitVars>>

---------------------------------------------------------------------------
(* Character strings *)

Digits == {"0", "1", "2", "3", "4", "5", "6", "7", "8", "9"}

DigitVal(c) ==
    CASE c = "0" -> 0 [] c = "1" -> 1 [] c = "2" -> 2 [] c = "3" -> 3
      [] c = "4" -> 4 [] c = "5" -> 5 [] c = "6" -> 6 [] c = "7" -> 7
      [] c = "8" -> 8 [] c = "9" -> 9

DigitChar(d) ==
    CASE d = 0 -> "0" [] d = 1 -> "1" [] d = 2 -> "2" [] d = 3 -> "3"
      [] d = 4 -> "4" [] d = 5 -> "5" [] d = 6 -> "6" [] d = 7 -> "7"
      [] d = 8 -> "8" [] d = 9 -> "9"

\* int(s) for a string of decimal digits
RECURSIVE ParseInt(_)
ParseInt(s) ==
    IF s = <<>> THEN 0
    ELSE 10 * ParseInt(SubSeq(s, 1, Len(s) - 1)) + DigitVal(s[Len(s)])

\* str(n) for n >= 0
RECURSIVE FormatInt(_)
FormatInt(n) ==
    IF n < 10 THEN <<DigitChar(n)>>
    ELSE FormatInt(n \div 10) \o <<DigitChar(n % 10)>>

POST == <<"p", "o", "s", "t">>

\* length of the run of digits of s that starts at position i
RECURSIVE DigitRun(_, _)
DigitRun(s, i) ==
    IF i <= Len(s) /\ s[i] \in Digits THEN 1 + DigitRun(s, i + 1) ELSE 0

HasPostPrefix(s) == Len(s) >= 4 /\ SubSeq(s, 1, 4) = POST

\* re.compile(r'^post\d+$').search(s): "$" matches at the end of the string
\* and also just before a newline that ends the string.
IdPatternSearch(s) ==
    /\ HasPostPrefix(s)
    /\ LET n == DigitRun(s, 5)
       IN  /\ n >= 1
           /\ \/ 4 + n = Len(s)
              \/ 4 + n = Len(s) - 1 /\ s[Len(s)] = "\n"

\* re.match(r'post(\d+)', s).group(1), or <<>> when there is no match
IdSuffixMatch(s) ==
    IF HasPostPrefix(s) /\ DigitRun(s, 5) >= 1
    THEN SubSeq(s, 5, 4 + DigitRun(s, 5))
    ELSE <<>>

---------------------------------------------------------------------------
(* Document trees.  A node is [tag, id, kids]; a text node has tag "#text" *)
(* (or "#ws" when it holds white space only), no id and no kids.  id is    *)
(* the value of the id attribute, <<>> when the attribute is absent.       *)

Elem(tag, id, kids) == [tag |-> tag, id |-> id, kids |-> kids]
WsNode == Elem("#ws", <<>>, <<>>)
TextNode == Elem("#text", <<>>, <<>>)
IsText(n) == n.tag \in {"#ws", "#text"}

\* every node of the forest nodes[lo..hi], in document order
RECURSIVE FlattenRange(_, _, _)
FlattenRange(nodes, lo, hi) ==
    IF lo > hi THEN <<>>
    ELSE IF lo = hi
         THEN <<nodes[lo]>> \o FlattenRange(nodes[lo].kids, 1, Len(nodes[lo].kids))
         ELSE FlattenRange(nodes, lo, (lo + hi) \div 2)
              \o FlattenRange(nodes, (lo + hi) \div 2 + 1, hi)

Flatten(nodes) == FlattenRange(nodes, 1, Len(nodes))

RECURSIVE MaxSuffix(_, _)
MaxSuffix(posts, max_id) ==
    IF posts = <<>> THEN max_id
    ELSE LET m == IdSuffixMatch(Head(posts).id)
             current_id == ParseInt(m)
         IN  MaxSuffix(Tail(posts),
                       IF m # <<>> /\ current_id > max_id THEN current_id ELSE max_id)

\* soup.find_all('article', id=re.compile(r'^post\d+$'))
FindAllPosts(tree) ==
    SelectSeq(Flatten(tree), LAMBDA n : n.tag = "article" /\ IdPatternSearch(n.id))

find_next_post_id(tree) == POST \o FormatInt(MaxSuffix(FindAllPosts(tree), 0) + 1)

---------------------------------------------------------------------------
(* Markup text.  A token is a start tag, an end tag or a run of character  *)
(* data; a start tag carries its name and its id attribute.  The other     *)
(* attributes and the characters of the data are not represented.          *)

Tok(t, tag, id) == [t |-> t, tag |-> tag, id |-> id]
Open(tag, id) == Tok("open", tag, id)
Close(tag) == Tok("close", tag, <<>>)
Txt == Tok("text", "", <<>>)
Ws == Tok("ws", "", <<>>)
NoFile == <<Tok("nofile", "", <<>>)>>

\* the tree builder's stack: the open elements, innermost last; the first
\* frame is the BeautifulSoup object itself
Root == Elem("[document]", <<>>, <<>>)

AddKid(stack, kid) ==
    [stack EXCEPT ![Len(stack)].kids = @ \o <<kid>>]

\* character data is appended to the innermost open element; data that
\* follows data is one string
AddData(stack, tag) ==
    LET top == stack[Len(stack)]
        n == Len(top.kids)
    IN  IF n > 0 /\ IsText(top.kids[n])
        THEN [stack EXCEPT ![Len(stack)].kids[n] =
                  IF @.tag = "#ws" /\ tag = "#ws" THEN WsNode ELSE TextNode]
        ELSE AddKid(stack, Elem(tag, <<>>, <<>>))

\* close the innermost open element
PopTag(stack) ==
    AddKid(SubSeq(stack, 1, Len(stack) - 1), stack[Len(stack)])

\* an end tag closes the innermost open element of that name and all the
\* elements opened inside it; with no such element it is ignored
RECURSIVE PopToTag(_, _)
PopToTag(stack, tag) ==
    IF stack[Len(stack)].tag = tag THEN PopTag(stack)
    ELSE PopToTag(PopTag(stack), tag)

HasOpen(stack, tag) == \E i \in 2..Len(stack) : stack[i].tag = tag

RECURSIVE CloseAll(_)
CloseAll(stack) == IF Len(stack) = 1 THEN stack ELSE CloseAll(PopTag(stack))

\* the tree builder takes one token
Feed(stack, k) ==
    CASE k.t = "open" -> stack \o <<Elem(k.tag, k.id, <<>>)>>
      [] k.t = "close" ->
             IF HasOpen(stack, k.tag) THEN PopToTag(stack, k.tag) ELSE stack
      [] k.t = "ws" -> AddData(stack, "#ws")
      [] OTHER -> AddData(stack, "#text")

\* the tokens lo..hi of toks fed in order.  The range is halved, and the
\* stack after the first half is evaluated before the second half is fed,
\* to keep the evaluation shallow.
RECURSIVE FeedAll(_, _, _, _)
FeedAll(stack, toks, lo, hi) ==
    IF lo > hi THEN stack
    ELSE IF lo = hi THEN Feed(stack, toks[lo])
    ELSE LET left == FeedAll(stack, toks, lo, (lo + hi) \div 2)
         IN  IF Len(left) > 0 THEN FeedAll(left, toks, (lo + hi) \div 2 + 1, hi)
             ELSE left

Build(toks, stack) == CloseAll(FeedAll(stack, toks, 1, Len(toks)))[1].kids

\* BeautifulSoup(text, 'html.parser'): the children of the document
ParseHtml(text) == Build(text, <<Root>>)

\* The tags and strings prettify() writes, one per line; a string of white
\* space only is not written.
RECURSIVE ItemsRange(_, _, _)
ItemsRange(nodes, lo, hi) ==
    IF lo > hi THEN <<>>
    ELSE IF lo = hi
         THEN LET n == nodes[lo]
              IN  CASE n.tag = "#ws" -> <<>>
                    [] n.tag = "#text" -> <<Txt>>
                    [] OTHER -> <<Open(n.tag, n.id)>>
                                \o ItemsRange(n.kids, 1, Len(n.kids))
                                \o <<Close(n.tag)>>
         ELSE ItemsRange(nodes, lo, (lo + hi) \div 2)
              \o ItemsRange(nodes, (lo + hi) \div 2 + 1, hi)

Items(nodes) == ItemsRange(nodes, 1, Len(nodes))

\* The line breaks and indentation between the items: between two tags
\* they are a string of their own, next to a string they are part of it.
\* Slot 2i-1 holds item i, slot 2i what follows it.
Lines(items) ==
    LET n == Len(items)
        none == Tok("", "", <<>>)
        nextIsText(i) == i < n /\ items[i + 1].t = "text"
        slot(j) ==
            LET i == (j + 1) \div 2
            IN  IF j % 2 = 1
                THEN IF items[i].t = "text" /\ nextIsText(i) THEN none ELSE items[i]
                ELSE IF items[i].t = "text" \/ nextIsText(i) THEN none ELSE Ws
    IN  SelectSeq([j \in 1..(2 * n) |-> slot(j)], LAMBDA k : k # none)

\* soup.prettify(formatter="html5")
Prettify(tree) == Lines(Items(tree))

---------------------------------------------------------------------------
(* add_blog_post: the pure parts *)

BLOGPOSTS == <<"b", "l", "o", "g", "P", "o", "s", "t", "s">>

\* soup.find('main', id='blogPosts') with byId, soup.find('main') without:
\* the path (child indices from the document) of the first match in
\* document order, <<>> for None
RECURSIVE FindMain(_, _, _)
FindMain(nodes, i, byId) ==
    IF i > Len(nodes) THEN <<>>
    ELSE IF nodes[i].tag = "main" /\ (byId => nodes[i].id = BLOGPOSTS) THEN <<i>>
    ELSE LET sub == FindMain(nodes[i].kids, 1, byId)
         IN  IF sub # <<>> THEN <<i>> \o sub ELSE FindMain(nodes, i + 1, byId)

\* main_content: the element with id blogPosts, else the first <main>
FindContainer(tree) ==
    IF FindMain(tree, 1, TRUE) # <<>> THEN FindMain(tree, 1, TRUE)
    ELSE FindMain(tree, 1, FALSE)

RECURSIVE NodeAt(_, _)
NodeAt(nodes, path) ==
    IF Len(path) = 1 THEN nodes[path[1]]
    ELSE NodeAt(nodes[path[1]].kids, Tail(path))

WhiteSpace == {" ", "\n", "\t"}

\* str.strip()
RECURSIVE Strip(_)
Strip(s) ==
    IF s = <<>> THEN s
    ELSE IF s[1] \in WhiteSpace THEN Strip(Tail(s))
    ELSE IF s[Len(s)] \in WhiteSpace THEN Strip(SubSeq(s, 1, Len(s) - 1))
    ELSE s

\* str.split(','): the pieces between the commas, empty ones included
RECURSIVE SplitComma(_, _)
SplitComma(s, piece) ==
    IF s = <<>> THEN <<piece>>
    ELSE IF s[1] = "," THEN <<piece>> \o SplitComma(Tail(s), <<>>)
    ELSE SplitComma(Tail(s), piece \o <<s[1]>>)

\* [tag.strip() for tag in tags_str.split(',') if tag.strip()]
RECURSIVE StripAll(_)
StripAll(pieces) ==
    IF pieces = <<>> THEN <<>>
    ELSE (IF Strip(Head(pieces)) # <<>> THEN <<Strip(Head(pieces))>> ELSE <<>>)
         \o StripAll(Tail(pieces))

TagsList(tags_str) == StripAll(SplitComma(tags_str, <<>>))

\* tags_html: one span per tag, white space between the spans
RECURSIVE TagsHtml(_)
TagsHtml(tags_list) ==
    IF tags_list = <<>> THEN <<>>
    ELSE <<Open("span", <<>>), Txt, Close("span")>>
         \o (IF Len(tags_list) > 1 THEN <<Ws>> ELSE <<>>)
         \o TagsHtml(Tail(tags_list))

\* new_post_html_str: the template with the fields put in as they are
NewPostHtml(next_id, tags_list, title, description) ==
    <<Open("article", next_id), Ws,
      Open("div", <<>>), Ws,
      Open("span", <<>>), Txt, Close("span"), Ws,
      Open("span", <<>>), Txt, Close("span"), Ws,
      Open("span", <<>>), Txt, Close("span"), Ws,
      Close("div"), Ws,
      Open("h2", <<>>), Open("a", <<>>)>> \o title \o <<Close("a"), Close("h2"), Ws,
      Open("div", <<>>), Ws>> \o TagsHtml(tags_list) \o <<Ws, Close("div"), Ws,
      Open("p", <<>>), Ws>> \o description \o <<Ws, Close("p"), Ws,
      Open("a", <<>>), Txt, Open("span", <<>>), Txt, Close("span"), Close("a"), Ws,
      Close("article")>>

\* BeautifulSoup(new_post_html_str, 'html.parser').find('article'):
\* the first article in document order, <<>> for None
FindArticle(tree) ==
    LET arts == SelectSeq(Flatten(tree), LAMBDA n : n.tag = "article")
    IN  IF arts = <<>> THEN <<>> ELSE <<arts[1]>>

SpliceKidsAtEnd(kids, new_post) == kids \o <<WsNode, new_post>>

\* main_content.insert(0, new_post_soup); main_content.insert(0, "\n      ")
SpliceKids(kids, new_post) == <<WsNode, new_post>> \o kids

RECURSIVE InsertAt(_, _, _)
InsertAt(nodes, path, new_post) ==
    IF Len(path) = 1
    THEN [nodes EXCEPT ![path[1]].kids = SpliceKids(@, new_post)]
    ELSE [nodes EXCEPT ![path[1]].kids = InsertAt(@, Tail(path), new_post)]

---------------------------------------------------------------------------
(* add_blog_post: the call, statement by statement.  A statement that      *)
(* calls into the file system or a library either completes or raises.     *)

MaxCalls == 3

P1 == POST \o <<"1">>
P2 == POST \o <<"2">>
P3 == POST \o <<"3">>
P5 == POST \o <<"5">>
P7 == POST \o <<"7">>

\* documents the first call may find on disk
BlogDocs ==
    { NoFile,
      <<Open("main", BLOGPOSTS), Close("main")>>,
      <<Open("main", BLOGPOSTS), Ws,
        Open("article", P2), Txt, Close("article"), Ws,
        Open("article", P1), Close("article"), Txt, Close("main")>>,
      <<Open("div", P7), Close("div"),
        Open("main", <<>>), Open("article", P3), Close("article"), Close("main")>>,
      <<Open("div", <<>>), Txt, Close("div")>>,
      <<Open("main", <<>>), Close("main"),
        Open("div", <<>>),
        Open("main", BLOGPOSTS), Open("article", P1), Close("article"), Close("main"),
        Close("div"),
        Open("article", P5), Close("article")>> }

\* title and description as typed: plain text, or text holding markup
TitleInputs ==
    { <<Txt>>,
      <<Open("article", P5), Close("article")>>,
      <<Txt, Close("a"), Close("h2"), Close("article"), Open("article", <<>>)>> }

TagInputs == { <<"A", ",", " ", "b">>, <<" ", ",", "\t">>, <<>> }

PathInputs == { "", "bloghome.html" }

Requests ==
    [html_file_path : PathInputs, title : TitleInputs, tags_str : TagInputs,
     description : {<<Txt>>}]

NoRequest ==
    [html_file_path |-> "", title |-> <<>>, tags_str |-> <<>>, description |-> <<>>]

Return(status, msg) == [status |-> status, msg |-> msg]

\* the statements of add_blog_post in the order they run
StepAfterBackupFirst(step) ==
    CASE step = "read" -> "parse"
      [] step = "parse" -> "backup"
      [] step = "backup" -> "find"
      [] step = "find" -> "prepare"
      [] step = "prepare" -> "insert"
      [] step = "insert" -> "open"
      [] step = "open" -> "write"

StepAfterOpenFirst(step) ==
    CASE step = "read" -> "parse"
      [] step = "parse" -> "find"
      [] step = "find" -> "prepare"
      [] step = "prepare" -> "insert"
      [] step = "insert" -> "open"
      [] step = "open" -> "backup"
      [] step = "backup" -> "write"

StepAfter(step) ==
    CASE step = "read" -> "parse"
      [] step = "parse" -> "find"
      [] step = "find" -> "prepare"
      [] step = "prepare" -> "insert"
      [] step = "insert" -> "backup"
      [] step = "backup" -> "open"
      [] step = "open" -> "write"

\* the statements inside a try/except Exception block, with the message
\* the handler returns
Handler(step) ==
    CASE step = "read" -> "read"
      [] step = "parse" -> "parse"
      [] step = "insert" -> "insert"
      [] step \in {"backup", "open", "write"} -> "write"
      [] OTHER -> ""

\* the call returns: the locals are dropped
Finish(r) ==
    /\ pc' = "idle"
    /\ result' = r
    /\ req' = NoRequest
    /\ content' = <<>>
    /\ soup' = <<>>
    /\ mainPath' = <<>>
    /\ nextId' = <<>>
    /\ allocLog' = IF r.status = "success" THEN Append(allocLog, nextId) ELSE <<>>

\* a fault raised by the statement at pc: the enclosing handler turns it
\* into a failure result; outside the try blocks it leaves the function
Raise ==
    /\ faulted' = pc
    /\ Finish(IF Handler(pc) # "" THEN Return("failure", Handler(pc))
              ELSE Return("raised", pc))

Goto(step) ==
    /\ pc' = step
    /\ UNCHANGED <<result, req, allocLog, faulted>>

Call(r) ==
    /\ pc = "idle"
    /\ calls < MaxCalls
    /\ calls' = calls + 1
    /\ fileAtCall' = file
    /\ bakAtCall' = bak
    /\ copyDone' = FALSE
    /\ openedW' = FALSE
    /\ faulted' = "none"
    /\ UNCHANGED <<file, bak, content, soup, mainPath, nextId>>
    /\ IF r.html_file_path = "" \/ file = NoFile
       THEN /\ pc' = "idle"
            /\ result' = Return("failure", "notfound")
            /\ req' = NoRequest
            /\ allocLog' = <<>>
       ELSE /\ pc' = "read"
            /\ req' = r
            /\ UNCHANGED <<result, allocLog>>

ReadFile ==
    /\ pc = "read"
    /\ UNCHANGED <<file, bak, calls, fileAtCall, bakAtCall, copyDone, openedW>>
    /\ \/ /\ content' = file
          /\ Goto(StepAfter(pc))
          /\ UNCHANGED <<soup, mainPath, nextId>>
       \/ Raise

ParseFile ==
    /\ pc = "parse"
    /\ UNCHANGED <<file, bak, calls, fileAtCall, bakAtCall, copyDone, openedW>>
    /\ \/ /\ soup' = ParseHtml(content)
          /\ Goto(StepAfter(pc))
          /\ UNCHANGED <<content, mainPath, nextId>>
       \/ Raise

FindInsertionPoint ==
    /\ pc = "find"
    /\ UNCHANGED <<file, bak, calls, fileAtCall, bakAtCall, copyDone, openedW>>
    /\ \/ /\ FindContainer(soup) # <<>>
          /\ mainPath' = FindContainer(soup)
          /\ Goto(StepAfter(pc))
          /\ UNCHANGED <<content, soup, nextId>>
       \/ /\ FindContainer(soup) = <<>>
          /\ Finish(Return("failure", "nomain"))
          /\ UNCHANGED faulted
       \/ Raise

PrepareData ==
    /\ pc = "prepare"
    /\ UNCHANGED <<file, bak, calls, fileAtCall, bakAtCall, copyDone, openedW>>
    /\ \/ /\ TagsList(req.tags_str) # <<>>
          /\ nextId' = find_next_post_id(soup)
          /\ Goto(StepAfter(pc))
          /\ UNCHANGED <<content, soup, mainPath>>
       \/ /\ TagsList(req.tags_str) = <<>>
          /\ Finish(Return("failure", "notags"))
          /\ UNCHANGED faulted
       \/ Raise

InsertPost ==
    /\ pc = "insert"
    /\ UNCHANGED <<file, bak, calls, fileAtCall, bakAtCall, copyDone, openedW>>
    /\ LET new_post_soup ==
               FindArticle(ParseHtml(NewPostHtml(nextId, TagsList(req.tags_str),
                                                 req.title, req.description)))
       IN  \/ /\ new_post_soup # <<>>
              /\ soup' = InsertAt(soup, mainPath, new_post_soup[1])
              /\ Goto(StepAfter(pc))
              /\ UNCHANGED <<content, mainPath, nextId>>
           \/ /\ new_post_soup = <<>>
              /\ Finish(Return("failure", "nofragment"))
              /\ UNCHANGED faulted
           \/ Raise

\* what a copy that raises may leave at the destination
FailedCopy(src, dst) == {dst, <<>>, src}

BackupSkipped(src, dst) == dst

\* what shutil.copy2(src, dst) leaves at the destination when it returns
BackupCopy(src, dst) == src

\* shutil.copy2(html_file_path, backup_path)
Backup ==
    /\ pc = "backup"
    /\ UNCHANGED <<file, calls, fileAtCall, bakAtCall, openedW>>
    /\ \/ /\ bak' = BackupCopy(file, bak)
          /\ copyDone' = TRUE
          /\ Goto(StepAfter(pc))
          /\ UNCHANGED <<content, soup, mainPath, nextId>>
       \/ /\ bak' \in FailedCopy(file, bak)
          /\ UNCHANGED copyDone
          /\ Raise

\* open(html_file_path, 'w', encoding='utf-8'): the file is truncated
OpenForWrite ==
    /\ pc = "open"
    /\ UNCHANGED <<bak, calls, fileAtCall, bakAtCall, copyDone>>
    /\ \/ /\ file' = <<>>
          /\ openedW' = TRUE
          /\ Goto(StepAfter(pc))
          /\ UNCHANGED <<content, soup, mainPath, nextId>>
       \/ /\ UNCHANGED <<file, openedW>>
          /\ Raise

\* what a write that raises may leave in the file
FailedWrite(text) == {<<>>, SubSeq(text, 1, Len(text) \div 2)}

\* f.write(soup.prettify(formatter="html5")) and the end of the with block
WriteFile ==
    /\ pc = "write"
    /\ UNCHANGED <<bak, calls, fileAtCall, bakAtCall, copyDone, openedW>>
    /\ \/ /\ file' = Prettify(soup)
          /\ Finish(Return("success", ""))
          /\ UNCHANGED faulted
       \/ /\ UNCHANGED file      \* prettify raises
          /\ Raise
       \/ /\ file' \in FailedWrite(Prettify(soup))
          /\ Raise

---------------------------------------------------------------------------
(* git_push_gui.py.  MainWindow.__init__ ends with ensure_repo(), which    *)
(* leaves only with repo_path set, and select_repo() never clears it, so   *)
(* on_push_clicked never takes its "No Repository" return.                 *)

MaxRuns == 3

\* cmds: 1 is git add, 2 is git commit, 3 is git push
NumCmds == 3

MsgInputs == { <<>>, <<" ">>, <<"m">>, <<" ", "m", " ">> }

ExitCodes == {0, 1}

NewWorker(commit_msg) ==
    [commit_msg |-> commit_msg, pc |-> "loop", i |-> 1, started |-> <<>>,
     exits |-> <<>>, signals |-> <<>>, thread |-> "running", deleteLater |-> {}]

\* push_button.setEnabled(False) in on_push_clicked
ButtonLeftEnabled == TRUE

ButtonAfterClick == FALSE

\* on_push_clicked, up to the message box or thread.start()
PushClicked(text) ==
    /\ button
    /\ dialogs = <<>>
    /\ UNCHANGED <<blogVars, events>>
    /\ IF Strip(text) = <<>>
       THEN /\ dialogs' = <<"warning">>
            /\ UNCHANGED <<button, runs>>
       ELSE /\ Len(runs) < MaxRuns
            /\ button' = ButtonAfterClick
            /\ runs' = Append(runs, NewWorker(Strip(text)))
            /\ UNCHANGED dialogs

\* self.error.emit(...); return
EmitError(w) ==
    /\ runs' = [runs EXCEPT ![w].pc = "returned", ![w].signals = Append(@, "error")]
    /\ events' = Append(events, [sig |-> "error", run |-> w])

\* subprocess.Popen(cmd, ...) for cmds[i]
StartCommand(w) ==
    /\ runs[w].pc = "loop"
    /\ UNCHANGED <<blogVars, button, dialogs>>
    /\ \/ /\ runs' = [runs EXCEPT ![w].pc = "waiting",
                                  ![w].started = Append(@, runs[w].i)]
          /\ UNCHANGED events
       \/ EmitError(w)

\* what run() does with the return code of cmds[i]
AfterExitIgnoringCode(i, rc) ==
    IF i < NumCmds THEN "loop" ELSE "finished"

AfterExit(i, rc) ==
    IF rc # 0 THEN "error"
    ELSE IF i < NumCmds THEN "loop" ELSE "finished"

\* proc.communicate() returns and the return code is tested.  finished has
\* three receivers: on_finished and thread.quit belong to objects of the GUI
\* thread and are queued for it in the order of their connection;
\* worker.deleteLater belongs to the worker and is called where the signal
\* is emitted.  error has one receiver, on_error.
CommandExit(w, rc) ==
    /\ runs[w].pc = "waiting"
    /\ UNCHANGED <<blogVars, button, dialogs>>
    /\ LET r == [runs[w] EXCEPT !.exits = Append(@, rc)]
           to == AfterExit(r.i, rc)
       IN  CASE to = "error" ->
                  /\ runs' = [runs EXCEPT ![w] = [r EXCEPT !.pc = "returned",
                                                           !.signals = Append(@, "error")]]
                  /\ events' = Append(events, [sig |-> "error", run |-> w])
             [] to = "loop" ->
                  /\ runs' = [runs EXCEPT ![w] = [r EXCEPT !.pc = "loop", !.i = @ + 1]]
                  /\ UNCHANGED events
             [] OTHER ->
                  /\ runs' = [runs EXCEPT ![w] = [r EXCEPT !.pc = "returned",
                                                           !.signals = Append(@, "finished"),
                                                           !.deleteLater = {"worker"}]]
                  /\ events' = events \o <<[sig |-> "finished", run |-> w],
                                           [sig |-> "quit", run |-> w]>>

\* proc.communicate() raises
CommandFault(w) ==
    /\ runs[w].pc = "waiting"
    /\ UNCHANGED <<blogVars, button, dialogs>>
    /\ EmitError(w)

\* the GUI thread's event loop (the window's, or a message box's) delivers
\* the oldest queued signal: on_error and on_finished up to their message
\* box; thread.quit, which ends the thread's event loop, and with the
\* thread's own finished signal thread.deleteLater
Dispatch ==
    /\ events # <<>>
    /\ events' = Tail(events)
    /\ UNCHANGED <<blogVars, button>>
    /\ LET e == Head(events)
       IN  CASE e.sig = "error" ->
                  /\ dialogs' = Append(dialogs, "error")
                  /\ UNCHANGED runs
             [] e.sig = "finished" ->
                  /\ dialogs' = Append(dialogs, "success")
                  /\ UNCHANGED runs
             [] OTHER ->
                  /\ runs' = [runs EXCEPT ![e.run].thread = "finished",
                                           ![e.run].deleteLater = @ \cup {"thread"}]
                  /\ UNCHANGED dialogs

\* the innermost message box is dismissed and its handler runs to its end:
\* on_error and on_finished enable the button
DialogClosed ==
    /\ dialogs # <<>>
    /\ dialogs' = SubSeq(dialogs, 1, Len(dialogs) - 1)
    /\ button' = IF dialogs[Len(dialogs)] \in {"error", "success"} THEN TRUE ELSE button
    /\ UNCHANGED <<blogVars, runs, events>>

---------------------------------------------------------------------------
(* Specifications *)

MaxNodes == 2

AllocIds ==
    { <<>>, P1, P2, POST \o <<"1", "0">>, POST \o <<"0", "7">>, POST,
      POST \o <<"x">>, POST \o <<"3", "x">>, <<"x">> \o P5,
      POST \o <<"4", "\n">>, <<"P", "o", "s", "t", "9">> }

AllocLeaves == { Elem(tag, id, <<>>) : tag \in {"article", "div"}, id \in AllocIds }

RECURSIVE SeqsUpTo(_, _)
SeqsUpTo(S, n) ==
    IF n = 0 THEN {<<>>}
    ELSE SeqsUpTo(S, n - 1)
         \cup { Append(q, x) : q \in { p \in SeqsUpTo(S, n - 1) : Len(p) = n - 1 }, x \in S }

\* trees for find_next_post_id: elements at the top of the document or
\* inside the container
AllocTrees ==
    SeqsUpTo(AllocLeaves, MaxNodes)
    \cup { <<Elem("main", BLOGPOSTS, kids)>> : kids \in SeqsUpTo(AllocLeaves, MaxNodes) }

BlogIdle ==
    /\ pc = "idle"
    /\ req = NoRequest
    /\ content = <<>>
    /\ soup = <<>>
    /\ mainPath = <<>>
    /\ nextId = <<>>
    /\ result = Return("none", "")
    /\ calls = 0
    /\ copyDone = FALSE
    /\ openedW = FALSE
    /\ faulted = "none"
    /\ allocLog = <<>>

GitIdle ==
    /\ button = TRUE
    /\ runs = <<>>
    /\ events = <<>>
    /\ dialogs = <<>>

Init ==
    /\ BlogIdle
    /\ file \in BlogDocs
    /\ bak = NoFile
    /\ fileAtCall = file
    /\ bakAtCall = bak
    /\ GitIdle

Next ==
    \/ \E r \in Requests : Call(r) /\ UNCHANGED gitVars
    \/ ReadFile /\ UNCHANGED gitVars
    \/ ParseFile /\ UNCHANGED gitVars
    \/ FindInsertionPoint /\ UNCHANGED gitVars
    \/ PrepareData /\ UNCHANGED gitVars
    \/ InsertPost /\ UNCHANGED gitVars
    \/ Backup /\ UNCHANGED gitVars
    \/ OpenForWrite /\ UNCHANGED gitVars
    \/ WriteFile /\ UNCHANGED gitVars

Spec == Init /\ [][Next]_vars

\* find_next_post_id alone, on any tree
Allocate ==
    /\ pc = "allocate"
    /\ nextId' = find_next_post_id(soup)
    /\ pc' = "allocated"
    /\ UNCHANGED <<file, bak, req, content, soup, mainPath, result, calls,
                   fileAtCall, bakAtCall, copyDone, openedW, faulted, allocLog, gitVars>>

InitAlloc ==
    /\ pc = "allocate"
    /\ soup \in AllocTrees
    /\ req = NoRequest
    /\ content = <<>>
    /\ mainPath = <<>>
    /\ nextId = <<>>
    /\ result = Return("none", "")
    /\ calls = 0
    /\ copyDone = FALSE
    /\ openedW = FALSE
    /\ faulted = "none"
    /\ allocLog = <<>>
    /\ file = NoFile
    /\ bak = NoFile
    /\ fileAtCall = NoFile
    /\ bakAtCall = NoFile
    /\ GitIdle

SpecAlloc == InitAlloc /\ [][Allocate]_vars

InitGit ==
    /\ BlogIdle
    /\ file = NoFile
    /\ bak = NoFile
    /\ fileAtCall = NoFile
    /\ bakAtCall = NoFile
    /\ GitIdle

NextGit ==
    \/ \E text \in MsgInputs : PushClicked(text)
    \/ \E w \in 1..Len(runs) : StartCommand(w)
    \/ \E w \in 1..Len(runs), rc \in ExitCodes : CommandExit(w, rc)
    \/ \E w \in 1..Len(runs) : CommandFault(w)
    \/ Dispatch
    \/ DialogClosed

SpecGit == InitGit /\ [][NextGit]_vars

---------------------------------------------------------------------------
(* The claims about find_next_post_id and add_blog_post *)

\* an identifier of the form post<N>: "post" and then digits only
IsPostNumber(id) ==
    /\ HasPostPrefix(id)
    /\ Len(id) > 4
    /\ \A i \in 5..Len(id) : id[i] \in Digits

PostNumber(id) == ParseInt(SubSeq(id, 5, Len(id)))

\* the entries of a document: its article elements
Entries(tree) == SelectSeq(Flatten(tree), LAMBDA n : n.tag = "article")

SetMax(S) == CHOOSE m \in S : \A x \in S : x <= m

\* the largest numeric suffix among the entries named post<N>, 0 with none
MaxEntryNumber(tree) ==
    SetMax({0} \cup { PostNumber(Entries(tree)[i].id) :
                        i \in { j \in 1..Len(Entries(tree)) :
                                  IsPostNumber(Entries(tree)[j].id) } })

\* C1 (as claimed): find_next_post_id returns "post" followed by M+1, M the
\* largest numeric suffix among the article elements whose id is "post"
\* followed by one or more digits (0 with none); no other element counts.
C1_NextIdIsMaxPlusOne ==
    pc = "allocated" => nextId = POST \o FormatInt(MaxEntryNumber(soup) + 1)

EntryIdsValid(tree) ==
    LET es == Entries(tree)
    IN  /\ \A i \in 1..Len(es) : IsPostNumber(es[i].id)
        /\ \A i, j \in 1..Len(es) : i # j => es[i].id # es[j].id

Returned == pc = "idle" /\ calls > 0

Succeeded == Returned /\ result.status = "success"

\* C2 (as claimed): whatever calls are made, with any inputs, every entry
\* identifier of the document stays unique and of the form post<N>, and an
\* identifier allocated by a successful call is greater than every numeric
\* suffix the document held before that call.
C2_EntryIdsStayValid ==
    /\ (pc = "idle" /\ file # NoFile) => EntryIdsValid(ParseHtml(file))
    /\ Succeeded =>
           /\ IsPostNumber(allocLog[Len(allocLog)])
           /\ PostNumber(allocLog[Len(allocLog)]) > MaxEntryNumber(ParseHtml(fileAtCall))

\* a forest without its white-space strings
RECURSIVE StripWs(_)
StripWs(nodes) ==
    LET kept == SelectSeq(nodes, LAMBDA n : n.tag # "#ws")
    IN  [i \in 1..Len(kept) |-> [kept[i] EXCEPT !.kids = StripWs(@)]]

RECURSIVE WithKidsAt(_, _, _)
WithKidsAt(nodes, path, kids) ==
    IF Len(path) = 1 THEN [nodes EXCEPT ![path[1]].kids = kids]
    ELSE [nodes EXCEPT ![path[1]].kids = WithKidsAt(@, Tail(path), kids)]

C4_BackupBeforeWrite ==
    /\ openedW => copyDone
    /\ ~copyDone => file = fileAtCall
    /\ (Returned /\ faulted = "backup") =>
           result.status = "failure" /\ ~openedW /\ file = fileAtCall

\* a copy that raises after an earlier call left a backup
C4_Witness ==
    /\ Returned
    /\ faulted = "backup"
    /\ bakAtCall # NoFile
    /\ bak # bakAtCall

\* C5 (as claimed): when the call returns, either it reports success and
\* the file holds the updated document, or it reports failure and the file
\* holds exactly what it held before the call.
C5_WriteIsAtomic ==
    Returned =>
        \/ result.status = "success" /\ file # fileAtCall
        \/ result.status # "success" /\ file = fileAtCall

\* C5 (amended): when the call returns, either it reports success and the
\* file holds the updated document, or it reports failure and what the
\* file held before the call is still on disk: in the file itself when
\* the file was not opened for writing, and otherwise in <path>.bak, the
\* file itself being empty or cut short.
C5_OriginalRecoverable ==
    Returned =>
        \/ /\ result.status = "success"
           /\ file = Prettify(ParseHtml(file))
           /\ file # fileAtCall
           /\ bak = fileAtCall
        \/ /\ result.status # "success"
           /\ IF openedW THEN bak = fileAtCall /\ file # NoFile
              ELSE file = fileAtCall

\* a failure that left the file cut short
C5_Witness ==
    /\ Returned
    /\ result.status = "failure"
    /\ openedW
    /\ file # fileAtCall
    /\ file # <<>>

\* C6 (as claimed): whatever statement raises, the call ends by returning
\* a (success, message) pair, and success is false when a fault was raised.
C6_NoFaultEscapes ==
    Returned =>
        /\ result.status \in {"success", "failure"}
        /\ faulted # "none" => result.status = "failure"

\* C7: a call that fails because the file is missing, because there is no
\* <main> element or because no tag is left after trimming leaves the file
\* and <path>.bak as they were (a missing .bak stays missing).
C7_EarlyFailureTouchesNothing ==
    (Returned /\ result.status = "failure"
              /\ result.msg \in {"notfound", "nomain", "notags"}) =>
        /\ file = fileAtCall
        /\ bak = bakAtCall
        /\ ~copyDone
        /\ ~openedW

\* the tag list is found empty in a call that follows a successful one
C7_Witness ==
    /\ Returned
    /\ result = Return("failure", "notags")
    /\ bak # NoFile
    /\ file # NoFile

\* C8 (as claimed): after each successful call <path>.bak holds what the
\* file held just before that call, and the identifier a successful call
\* allocates is one more than the identifier the successful call before it
\* allocated.
C8_BackupAndIncrement ==
    Succeeded =>
        /\ bak = fileAtCall
        /\ Len(allocLog) >= 2 =>
               PostNumber(allocLog[Len(allocLog)])
                   = PostNumber(allocLog[Len(allocLog) - 1]) + 1

---------------------------------------------------------------------------
(* The claims about the git push window *)

AllZero(exits) == \A j \in 1..Len(exits) : exits[j] = 0

\* what holds of one run at every moment
RunInOrder(r) ==
    /\ Len(r.started) <= NumCmds
    /\ \A k \in 1..Len(r.started) : r.started[k] = k
    /\ Len(r.exits) <= Len(r.started)
    /\ Len(r.started) <= Len(r.exits) + 1
    /\ \A j \in 1..Len(r.exits) : j < Len(r.started) => r.exits[j] = 0
    /\ r.pc # "returned" => r.signals = <<>> /\ AllZero(r.exits)
    /\ r.pc = "returned" =>
           /\ Len(r.signals) = 1
           /\ r.signals[1] \in {"finished", "error"}
           /\ r.signals[1] = "finished" <=> (Len(r.exits) = NumCmds /\ AllZero(r.exits))

\* what holds of every step of one run
RunStepInOrder(r, rNext) ==
    /\ rNext.started # r.started =>
           /\ Len(r.exits) = Len(r.started)
           /\ AllZero(r.exits)
           /\ r.signals = <<>>
           /\ rNext.started = Append(r.started, Len(r.started) + 1)
    /\ r.pc = "returned" =>
           /\ rNext.pc = "returned"
           /\ rNext.exits = r.exits
           /\ rNext.signals = r.signals

\* C9: a run starts git add, git commit, git push in that order, each only
\* after the ones before it exited with status 0; after a non-zero exit or
\* a fault it starts nothing more; it ends with exactly one signal, which is
\* finished exactly when all three commands exited with status 0.
C9_SequentialFirstFailureEnds ==
    [][ /\ \A w \in 1..Len(runs') : RunInOrder(runs'[w])
        /\ \A w \in 1..Len(runs) : RunStepInOrder(runs[w], runs'[w]) ]_vars

\* one run went through all three commands, another stopped at git commit
C9_Witness ==
    /\ Len(runs) = 2
    /\ runs[1].signals = <<"finished">>
    /\ runs[1].started = <<1, 2, 3>>
    /\ runs[2].signals = <<"error">>
    /\ runs[2].exits = <<0, 1>>

Unhandled ==
    \/ \E k \in 1..Len(events) : events[k].sig \in {"finished", "error"}
    \/ \E k \in 1..Len(dialogs) : dialogs[k] \in {"success", "error"}

\* C10: at most one run is executing commands at any time, and the push
\* button is disabled from the start of a run until on_finished or
\* on_error has run to its end.
C10_OneRunInFlight ==
    /\ Cardinality({ w \in 1..Len(runs) : runs[w].pc # "returned" }) <= 1
    /\ button => /\ \A w \in 1..Len(runs) : runs[w].pc = "returned"
                 /\ ~Unhandled

\* a second run is executing git commit after the first run has ended
C10_Witness ==
    /\ Len(runs) = 2
    /\ runs[1].pc = "returned"
    /\ runs[2].pc = "waiting"
    /\ runs[2].i = 2
    /\ ~button

\* the thread of run r has left its event loop, and the worker and the
\* thread are scheduled for deletion
Released(r) == r.thread = "finished" /\ r.deleteLater = {"worker", "thread"}

\* nothing is queued for the GUI thread and no message box is open
GuiQuiet == events = <<>> /\ dialogs = <<>>

\* C11: when the push button is enabled again and the GUI thread has nothing
\* left to deliver, every run that was started has released its background
\* thread, whether its worker ended with finished or with error.
C11_EveryRunReleasesThread ==
    (button /\ GuiQuiet) => \A w \in 1..Len(runs) : Released(runs[w])

\* the same, of the runs that ended with finished only
FinishedRunsReleased ==
    (button /\ GuiQuiet) =>
        \A w \in 1..Len(runs) : runs[w].signals = <<"finished">> => Released(runs[w])

=============================================================================
